---- MODULE Spec2Model ----
(***************************************************************************)
(* A model of the genius client (src/genius.go) and of its lyric           *)
(* extractor (the Go source embedded in src/README.md).                     *)
(*                                                                         *)
(*   Adaptive Paginator         GetArtistSongs, GetArtistAlbums,            *)
(*                              GetAlbumTracks            (SpecPaginator)   *)
(*   Resilient Request Executor doRequest, retryDuration  (SpecExecutor)    *)
(*   Text Extractor             Extract, findDivLyrics,                     *)
(*                              htmlToText, walk          (SpecExtractor)   *)
(*   Resource calls             getSong, GetLyrics,                         *)
(*                              GetSongWithLyrics, getAlbum,                *)
(*                              GetAnnotation             (SpecResources)   *)
(***************************************************************************)
EXTENDS Integers, Sequences, FiniteSets, TLC

(***************************************************************************)
(* Bounds of the model.                                                    *)
(***************************************************************************)
\* largest target handed to GetArtistSongs
MaxTotal == 125
\* largest next_page value a modelled server answers with
MaxPage == 4
\* page requests of one paginated fetch the model follows
MaxRequests == 4
\* attempts (calls of c.client.Do) of one doRequest the model follows
MaxAttempts == 4
\* longest Retry-After value built from HdrChars
MaxHdrLen == 2
\* most children of a lyric container in the modelled documents
MaxKids == 3

VARIABLES
    op,          \* the paginated fetch being run ("none" before the call)
    total,       \* GetArtistSongs' total argument (-1: fetch until the end)
    pc,          \* "Idle" | "Fetching" | "Done" | "Failed" | "Panic"
    page,        \* the local variable page
    newPerPage,  \* the local variable newPerPage (GetArtistSongs)
    acc,         \* the accumulating slice: songs / albums / tracks
    reqs,        \* page requests issued so far, in order
    resps,       \* what each page request came back with, in order
    result,      \* the returned slice (<<>> is nil)
    err,         \* the returned error: "none" | "error"
    \* ---- doRequest
    execPc,      \* "Idle" | "Sending" | "Returned"
    AccessToken, \* Client.AccessToken
    callReq,     \* the request as the caller handed it to doRequest
    req,         \* the *http.Request doRequest works on
    attempts,    \* calls of c.client.Do so far
    firstSent,   \* the request as the first attempt sent it
    lastSent,    \* the request as the latest attempt sent it
    lastOutcome, \* what the latest attempt came back with
    sleeps,      \* calls of time.Sleep so far
    slept,       \* the duration handed to the latest time.Sleep, in seconds
    retBody,     \* the returned []byte
    retErr,      \* the returned error
    \* ---- Extractor
    extPc,       \* "Idle" | "Parsed" | "Located" | "Returned" | "Panic"
    reader,      \* Extractor.reader: what html.Parse makes of the page
    e_root,      \* Extractor.root
    e_node,      \* Extractor.node
    e_text,      \* Extractor.text
    extRet,      \* the string Extract returns
    extErr,      \* the error Extract returns: "none" | "parse"
    \* ---- resource calls against one server
    api,         \* what doRequest and json.Unmarshal make of an API request
    site,        \* what c.client.Do and io.ReadAll make of each lyric page URL
    tracksAns,   \* what GetAlbumTracks comes back with: "ok" | "err"
    resPc,       \* "Run" | "Panic" (the process died of a nil dereference)
    gotSong,     \* what GetSong(id) returned
    gotLyrics,   \* what GetLyrics(uri) returned, and for which uri
    swlPc,       \* GetSongWithLyrics: "Idle" | "HaveSong" | "Done" | "Panic"
    song,        \* GetSongWithLyrics' local variable song
    song2,       \* what GetSongWithLyrics(id) returned
    gotOther     \* what getAlbum or GetAnnotation returned, and which call

pagVars == <<op, total, pc, page, newPerPage, acc, reqs, resps, result, err>>

execVars == <<execPc, AccessToken, callReq, req, attempts, firstSent, lastSent, lastOutcome,
              sleeps, slept, retBody, retErr>>

extVars == <<extPc, reader, e_root, e_node, e_text, extRet, extErr>>

resVars == <<api, site, tracksAns, resPc, gotSong, gotLyrics, swlPc, song, song2,
             gotOther>>

vars == <<pagVars, execVars, extVars, resVars>>

(***************************************************************************)
(* The server, as far as a paginated fetch sees it.  A page request comes  *)
(* back as an error (transport error, upstream error or JSON decode error  *)
(* returned by get...Page), as a decoded envelope without a response       *)
(* object, or as a decoded page: n items and the next_page field (0 when   *)
(* absent or null).  The items of a page are named by their offsets in the *)
(* collection.                                                             *)
(***************************************************************************)
Items(p, s, n) == [i \in 1..n |-> (p - 1) * s + (i - 1)]

\* how many items a page may carry: what was asked for, or a single item
Fill(s) == {s, 1}

NextPages(p) == {0, p + 1, MaxPage}

Outcomes(p, s) ==
    {[kind |-> "err"], [kind |-> "noresp"]}
    \cup {[kind |-> "ok", n |-> n, next_page |-> np] :
             n \in Fill(s), np \in NextPages(p)}

(***************************************************************************)
(* src/genius.go                                                           *)
(***************************************************************************)
perPage == 50

\* a page size that is never shrunk to the remaining count
getPerPage_NoShrink(tot, fetched, pp) ==
    IF tot - fetched <= 0 THEN tot - fetched ELSE pp

getPerPage(tot, fetched, pp) ==
    IF tot - fetched < pp THEN tot - fetched ELSE pp

fetchUntilEnd == total = -1

(***************************************************************************)
(* The Markup Tree (golang.org/x/net/html Node): a node is its type, its   *)
(* DataAtom (tag), its attributes, its Data (the payload of a text node, a *)
(* sequence of characters) and its children in order.                      *)
(***************************************************************************)
Node(type, tag, attr, data, kids) ==
    [type |-> type, tag |-> tag, attr |-> attr, data |-> data, kids |-> kids]

\* a nil *html.Node
NilNode == Node("nil", "", <<>>, <<>>, <<>>)

ExtIdle ==
    /\ extPc = "Idle"
    /\ reader = [ok |-> FALSE, tree |-> NilNode]
    /\ e_root = NilNode
    /\ e_node = NilNode
    /\ e_text = <<>>
    /\ extRet = <<>>
    /\ extErr = "none"

\* a call that has not been made
NoResult == [kind |-> "none"]

\* a nil *Song
NilSong == [nil |-> TRUE, url |-> "", lyrics |-> <<>>]

ResIdle ==
    /\ api = [kind |-> "err"]
    /\ site = <<>>
    /\ tracksAns = "err"
    /\ resPc = "Run"
    /\ gotSong = NoResult
    /\ gotLyrics = NoResult
    /\ swlPc = "Idle"
    /\ song = NilSong
    /\ song2 = NoResult
    /\ gotOther = NoResult

NoRequest ==
    [method |-> "", url |-> "", query |-> "",
     authorization |-> <<>>, content_type |-> ""]

\* doRequest before its call, but for the client's token
ExecFresh ==
    /\ execPc = "Idle"
    /\ callReq = NoRequest
    /\ req = NoRequest
    /\ attempts = 0
    /\ firstSent = req
    /\ lastSent = req
    /\ lastOutcome = [kind |-> "none"]
    /\ sleeps = 0
    /\ slept = 0
    /\ retBody = [nil |-> TRUE]
    /\ retErr = [nil |-> TRUE]

ExecIdle == AccessToken = "" /\ ExecFresh

PagIdle ==
    /\ op = "none"
    /\ total = 0
    /\ pc = "Idle"
    /\ page = 0
    /\ newPerPage = 0
    /\ acc = <<>>
    /\ reqs = <<>>
    /\ resps = <<>>
    /\ result = <<>>
    /\ err = "none"

PagInit ==
    /\ ExecIdle
    /\ ExtIdle
    /\ ResIdle
    /\ op = "none"
    /\ total = 0
    /\ pc = "Idle"
    /\ page = 0
    /\ newPerPage = 0
    /\ acc = <<>>
    /\ reqs = <<>>
    /\ resps = <<>>
    /\ result = <<>>
    /\ err = "none"

\* return songs, nil  /  return albums, nil  /  return tracks, nil
ReturnOk(items) ==
    /\ pc' = "Done"
    /\ result' = items
    /\ err' = "none"

\* a failed fetch that hands back the pages accumulated so far
ReturnErr_Partial ==
    /\ pc' = "Failed"
    /\ result' = acc
    /\ err' = "error"

\* if err != nil { return nil, err }
ReturnErr ==
    /\ pc' = "Failed"
    /\ result' = <<>>
    /\ err' = "error"

\* response.Response is nil: response.Response.NextPage dereferences it
NilDeref ==
    /\ pc' = "Panic"
    /\ UNCHANGED <<result, err>>

\* for fetchUntilEnd || newPerPage > 0
SongsLoopCond(tot, npp) == tot = -1 \/ npp > 0

\* if fetchUntilEnd && response.Response.NextPage == 0 { break }
SongsBreak(tot, np) == tot = -1 /\ np = 0

\* an unbounded fetch that never stops at next_page = 0
PageLoopCond_FromZero(p) == p >= 0

\* for page >= 1
PageLoopCond(p) == p >= 1

\* a client that counts the pages itself
NextCursor_Increment(p, np) == p + 1

\* page = response.Response.NextPage
NextCursor(p, np) == np

\* GetArtistSongs, up to the first test of the loop condition
GetArtistSongs(tot) ==
    /\ pc = "Idle"
    /\ op' = "GetArtistSongs"
    /\ total' = tot
    /\ page' = 1
    /\ newPerPage' = IF tot = -1 THEN 0
                     ELSE getPerPage(tot, (1 - 1) * perPage, perPage)
    /\ acc' = <<>>
    /\ IF SongsLoopCond(tot, newPerPage')
       THEN pc' = "Fetching" /\ UNCHANGED <<result, err>>
       ELSE ReturnOk(<<>>)
    /\ UNCHANGED <<reqs, resps, execVars, extVars, resVars>>

\* one iteration of GetArtistSongs' loop, answered by the server with r
SongsPage(r) ==
    /\ pc = "Fetching"
    /\ op = "GetArtistSongs"
    /\ Len(reqs) < MaxRequests
    /\ reqs' = Append(reqs, [page |-> page, per_page |-> newPerPage])
    /\ resps' = Append(resps, r)
    /\ CASE r.kind = "err" ->
              /\ ReturnErr
              /\ UNCHANGED <<page, newPerPage, acc>>
         [] r.kind = "noresp" ->
              /\ NilDeref
              /\ UNCHANGED <<page, newPerPage, acc>>
         [] r.kind = "ok" /\ SongsBreak(total, r.next_page) ->
              /\ ReturnOk(acc)
              /\ UNCHANGED <<page, newPerPage, acc>>
         [] OTHER ->
              /\ acc' = acc \o Items(page, newPerPage, r.n)
              /\ page' = NextCursor(page, r.next_page)
              /\ newPerPage' = IF fetchUntilEnd THEN newPerPage
                               ELSE getPerPage(total, (page' - 1) * perPage, perPage)
              /\ IF SongsLoopCond(total, newPerPage')
                 THEN pc' = "Fetching" /\ UNCHANGED <<result, err>>
                 ELSE ReturnOk(acc')
    /\ UNCHANGED <<op, total, execVars, extVars, resVars>>

\* GetArtistAlbums / GetAlbumTracks, up to the first test of page >= 1
UnboundedCall(name) ==
    /\ pc = "Idle"
    /\ op' = name
    /\ page' = 1
    /\ acc' = <<>>
    /\ pc' = "Fetching"
    /\ UNCHANGED <<total, newPerPage, reqs, resps, result, err,
                   execVars, extVars, resVars>>

\* one iteration of the loop for page >= 1 { ... }
UnboundedPage(name, r) ==
    /\ pc = "Fetching"
    /\ op = name
    /\ Len(reqs) < MaxRequests
    /\ reqs' = Append(reqs, [page |-> page, per_page |-> 50])
    /\ resps' = Append(resps, r)
    /\ CASE r.kind = "err" ->
              /\ ReturnErr
              /\ UNCHANGED <<page, acc>>
         [] r.kind = "noresp" ->
              /\ NilDeref
              /\ UNCHANGED <<page, acc>>
         [] OTHER ->
              /\ page' = NextCursor(page, r.next_page)
              /\ acc' = acc \o Items(page, 50, r.n)
              /\ IF PageLoopCond(page')
                 THEN pc' = "Fetching" /\ UNCHANGED <<result, err>>
                 ELSE ReturnOk(acc')
    /\ UNCHANGED <<op, total, newPerPage, execVars, extVars, resVars>>

GetArtistAlbums == UnboundedCall("GetArtistAlbums")

AlbumsPage(r) == UnboundedPage("GetArtistAlbums", r)

GetAlbumTracks == UnboundedCall("GetAlbumTracks")

TracksPage(r) == UnboundedPage("GetAlbumTracks", r)

PagNext ==
    \/ \E tot \in (-1)..MaxTotal : GetArtistSongs(tot)
    \/ \E r \in Outcomes(page, newPerPage) : SongsPage(r)
    \/ GetArtistAlbums
    \/ \E r \in Outcomes(page, 50) : AlbumsPage(r)
    \/ GetAlbumTracks
    \/ \E r \in Outcomes(page, 50) : TracksPage(r)

SpecPaginator == PagInit /\ [][PagNext]_vars

(***************************************************************************)
(* src/genius.go: retryDuration and doRequest.                             *)
(*                                                                         *)
(* A header value is a sequence of characters; <<>> is the value           *)
(* Header.Get gives for an absent header.  Durations are in seconds.       *)
(***************************************************************************)
Digits == <<"0", "1", "2", "3", "4", "5", "6", "7", "8", "9">>

IsDigit(c) == \E d \in 1..10 : Digits[d] = c

DigitVal(c) == (CHOOSE d \in 1..10 : Digits[d] = c) - 1

\* the magnitude of a digit string as strconv reads it for a 32-bit result:
\* its value when below 2^31, -2 when exactly 2^31, -1 when above
RECURSIVE Magnitude(_, _)
Magnitude(s, a) ==
    IF s = <<>> THEN a
    ELSE LET d == DigitVal(s[1])
             b == IF a < 0 THEN -1
                  ELSE IF a < 214748364 THEN a * 10 + d
                  ELSE IF a > 214748364 THEN -1
                  ELSE IF d <= 7 THEN a * 10 + d
                  ELSE IF d = 8 THEN -2
                  ELSE -1
         IN  Magnitude(Tail(s), b)

\* strconv.ParseInt(raw, 10, 32)
ParseInt32(raw) ==
    LET signed == raw # <<>> /\ raw[1] \in {"+", "-"}
        neg    == raw # <<>> /\ raw[1] = "-"
        rest   == IF signed THEN Tail(raw) ELSE raw
    IN  IF rest = <<>> \/ \E i \in 1..Len(rest) : ~IsDigit(rest[i])
        THEN [ok |-> FALSE, val |-> 0]
        ELSE LET m == Magnitude(rest, 0)
             IN  IF m = -1 THEN [ok |-> FALSE, val |-> 0]
                 ELSE IF m = -2
                      THEN IF neg THEN [ok |-> TRUE, val |-> (-2147483647) - 1]
                           ELSE [ok |-> FALSE, val |-> 0]
                 ELSE [ok |-> TRUE, val |-> IF neg THEN -m ELSE m]

defaultRetryDuration == 5

\* a wait that ignores the server's hint
retryDuration_Fixed(raw) == defaultRetryDuration

retryDuration(raw) ==
    IF raw = <<>> THEN defaultRetryDuration
    ELSE LET p == ParseInt32(raw)
         IN  IF ~p.ok THEN defaultRetryDuration ELSE p.val

StatusOK == 200

\* an executor that does not know the edge-network block status
IsThrottled_Only429(status) == status = 429

\* an executor that also retries server errors
IsThrottled_ServerErrors(status) ==
    status = 429 \/ status = 1015 \/ status >= 500

\* an executor that retries every status but 200
IsThrottled_AllButOK(status) == status # StatusOK

\* resp.StatusCode == 429 || resp.StatusCode == 1015
IsThrottled(status) == status = 429 \/ status = 1015

\* req.Header.Set("Authorization", ...); req.Header.Set("Content-Type", ...)
SetHeaders(r, token) ==
    [r EXCEPT !.authorization = <<"Bearer ", token>>,
              !.content_type = "application/json"]

(***************************************************************************)
(* The callers' requests and the server's answers to one attempt.          *)
(***************************************************************************)
CallerRequests ==
    [method : {"GET"},
     url : {"/songs/1", "/artists/1/songs"},
     query : {"", "per_page=50&page=1"},
     authorization : {<<>>, <<"Bearer ", "stale">>},
     content_type : {""}]

HdrChars == {"2", "0", "-", "+", "x"}

RECURSIVE HdrUpTo(_)
HdrUpTo(n) ==
    IF n = 0 THEN {<<>>}
    ELSE LET shorter == HdrUpTo(n - 1)
         IN  shorter \cup {Append(h, c) : h \in shorter, c \in HdrChars}

\* Retry-After values: short ones, and the ends of the 32-bit range
RetryAfterValues ==
    HdrUpTo(MaxHdrLen)
    \cup { <<"2","1","4","7","4","8","3","6","4","7">>,
           <<"2","1","4","7","4","8","3","6","4","8">>,
           <<"-","2","1","4","7","4","8","3","6","4","8">>,
           <<"-","2","1","4","7","4","8","3","6","4","9">>,
           <<"2","5">>, <<"1","2","0">> }

Statuses == {200, 429, 1015, 500, 404, 503}

Bodies == {"", "{\"response\":{}}", "upstream says no"}

\* c.client.Do fails; or it answers, and the body may fail to be read
AttemptOutcomes ==
    {[kind |-> "doErr"]}
    \cup {[kind |-> "resp", status |-> st, retry_after |-> h,
           body |-> "", readOk |-> TRUE] :
             st \in {429, 1015}, h \in RetryAfterValues}
    \cup {[kind |-> "resp", status |-> st, retry_after |-> <<>>,
           body |-> b, readOk |-> ok] :
             st \in Statuses, b \in Bodies, ok \in BOOLEAN}

\* NewClient(httpClient, token)
ExecInit ==
    /\ AccessToken \in {"tokenA", "tokenB"}
    /\ ExecFresh
    /\ PagIdle
    /\ ExtIdle
    /\ ResIdle

\* doRequest, up to the loop: the two Header.Set calls
doRequest(r) ==
    /\ execPc = "Idle"
    /\ callReq' = r
    /\ req' = SetHeaders(r, AccessToken)
    /\ execPc' = "Sending"
    /\ UNCHANGED <<AccessToken, attempts, firstSent, lastSent, lastOutcome, sleeps, slept,
                   retBody, retErr, pagVars, extVars, resVars>>

\* return x, e
ExecReturn(b, e) ==
    /\ execPc' = "Returned"
    /\ retBody' = b
    /\ retErr' = e

\* an executor that waits and tries again after a transport error
OnTransportError_Retry ==
    /\ sleeps' = sleeps + 1
    /\ slept' = defaultRetryDuration
    /\ UNCHANGED <<execPc, retBody, retErr>>

\* resp, err := c.client.Do(req); if err != nil { return nil, err }
OnTransportError ==
    /\ ExecReturn([nil |-> TRUE], [nil |-> FALSE, text |-> "transport"])
    /\ UNCHANGED <<sleeps, slept>>

\* one iteration of doRequest's loop, answered with o
Attempt(o) ==
    /\ execPc = "Sending"
    /\ attempts < MaxAttempts
    /\ attempts' = attempts + 1
    /\ lastSent' = req
    /\ firstSent' = IF attempts = 0 THEN req ELSE firstSent
    /\ lastOutcome' = o
    /\ CASE o.kind = "doErr" -> OnTransportError
         [] o.kind = "resp" /\ IsThrottled(o.status) ->
              /\ sleeps' = sleeps + 1
              /\ slept' = retryDuration(o.retry_after)
              /\ UNCHANGED <<execPc, retBody, retErr>>
         [] o.kind = "resp" /\ ~IsThrottled(o.status) /\ ~o.readOk ->
              /\ ExecReturn([nil |-> TRUE], [nil |-> FALSE, text |-> "read"])
              /\ UNCHANGED <<sleeps, slept>>
         [] o.kind = "resp" /\ ~IsThrottled(o.status) /\ o.readOk
                /\ o.status # StatusOK ->
              /\ ExecReturn([nil |-> TRUE], [nil |-> FALSE, text |-> o.body])
              /\ UNCHANGED <<sleeps, slept>>
         [] OTHER ->
              /\ ExecReturn([nil |-> FALSE, bytes |-> o.body], [nil |-> TRUE])
              /\ UNCHANGED <<sleeps, slept>>
    /\ UNCHANGED <<AccessToken, callReq, req, pagVars, extVars, resVars>>

ExecNext ==
    \/ \E r \in CallerRequests : doRequest(r)
    \/ \E o \in AttemptOutcomes : Attempt(o)

SpecExecutor == ExecInit /\ [][ExecNext]_vars

\* the server answers the attempt with 429 or 1015
ServerThrottles(o) == o.kind = "resp" /\ o.status \in {429, 1015}

\* one iteration of doRequest's loop against a server that throttles a call
\* fewer than MaxAttempts times before it answers with another status
AttemptAnswered(o) ==
    /\ ServerThrottles(o) => attempts < MaxAttempts - 1
    /\ Attempt(o)

\* the answers whose Retry-After header is absent or a single character
ShortOutcomes ==
    {o \in AttemptOutcomes : o.kind = "resp" => Len(o.retry_after) <= 1}

ExecNextAnswered ==
    \/ \E r \in CallerRequests : doRequest(r)
    \/ \E o \in ShortOutcomes : AttemptAnswered(o)

\* doRequest's loop goes on by itself: c.client.Do, io.ReadAll and time.Sleep
\* come back, and nothing else is waited for
SpecExecutorFair ==
    /\ ExecInit
    /\ [][ExecNextAnswered]_vars
    /\ WF_vars(\E o \in ShortOutcomes : AttemptAnswered(o))

(***************************************************************************)
(* src/README.md: the Extractor.                                           *)
(***************************************************************************)
LyricsRootId == <<"l", "y", "r", "i", "c", "s", "-", "r", "o", "o", "t">>

LyricsHeader == <<"L", "y", "r", "i", "c", "s", "H", "e", "a", "d", "e", "r">>

Footer == <<"F", "o", "o", "t", "e", "r">>

\* strings.Contains(s, sub)
Contains(s, sub) ==
    \E i \in 0..(Len(s) - Len(sub)) : SubSeq(s, i + 1, i + Len(sub)) = sub

\* how many values of attr contain sub: the iterations of
\* for _, a := range ....Attr whose test strings.Contains(a.Val, sub) holds
RECURSIVE CountContaining(_, _)
CountContaining(attr, sub) ==
    IF attr = <<>> THEN 0
    ELSE (IF Contains(attr[1].val, sub) THEN 1 ELSE 0)
         + CountContaining(Tail(attr), sub)

\* attr.Key == "id" && attr.Val == "lyrics-root", for some attribute
HasLyricsRootId(n) ==
    \E i \in 1..Len(n.attr) :
        n.attr[i].key = "id" /\ n.attr[i].val = LyricsRootId

\* a container test that accepts any element
IsDiv_AnyElement(n) == n.type = "element"

\* node.DataAtom == atom.Div
IsDiv(n) == n.tag = "div"

\* the RemoveChild(node.FirstChild) calls of the loop over the first
\* child's attributes
HeaderRemovals(kids) == CountContaining(kids[1].attr, LyricsHeader)

\* the RemoveChild(node.LastChild) calls of the loop over the last child's
\* attributes
FooterRemovals(kids) == CountContaining(kids[Len(kids)].attr, Footer)

\* the two stripping loops on a matched container with children kids:
\* node.FirstChild.Attr and node.LastChild.Attr dereference a nil child of a
\* container without children, and RemoveChild(nil) panics
Strip(kids) ==
    IF kids = <<>> THEN [panic |-> TRUE, kids |-> kids]
    ELSE LET h == HeaderRemovals(kids)
         IN  IF h > Len(kids) THEN [panic |-> TRUE, kids |-> <<>>]
             ELSE LET front == SubSeq(kids, h + 1, Len(kids))
                  IN  IF front = <<>> THEN [panic |-> TRUE, kids |-> front]
                      ELSE LET f == FooterRemovals(front)
                           IN  IF f > Len(front)
                               THEN [panic |-> TRUE, kids |-> <<>>]
                               ELSE [panic |-> FALSE,
                                     kids |-> SubSeq(front, 1, Len(front) - f)]

\* findDivLyrics: whether walk goes on into the node's children, the node as
\* the call leaves it, whether it was assigned to e.node, whether it panicked
findDivLyrics(n) ==
    IF ~IsDiv(n) THEN [cont |-> TRUE, node |-> n, set |-> FALSE, panic |-> FALSE]
    ELSE IF HasLyricsRootId(n)
         THEN LET st == Strip(n.kids)
              IN  [cont |-> FALSE, node |-> [n EXCEPT !.kids = st.kids],
                   set |-> ~st.panic, panic |-> st.panic]
         ELSE [cont |-> TRUE, node |-> n, set |-> FALSE, panic |-> FALSE]

\* node.Type is CommentNode, DoctypeNode or ErrorNode
Skipped(n) == n.type \in {"comment", "doctype", "error"}

\* a walk that keeps the first container it matched
LastAssigned_KeepFirst(h, t) == IF h.set THEN h.node ELSE t.node

\* e.node = node, for a walk h of a child followed by the walk t of its later
\* siblings: the later assignment overwrites the earlier one
LastAssigned(h, t) == IF t.set THEN t.node ELSE h.node

\* walk(node, e.findDivLyrics): the subtree as the walk leaves it, whether
\* e.node was assigned in it, the node assigned last, whether it panicked
RECURSIVE WalkFind(_), WalkFindKids(_)
WalkFind(n) ==
    IF Skipped(n)
    THEN [tree |-> n, set |-> FALSE, node |-> NilNode, panic |-> FALSE]
    ELSE LET f == findDivLyrics(n)
         IN  IF f.panic \/ ~f.cont
             THEN [tree |-> f.node, set |-> f.set, node |-> f.node,
                   panic |-> f.panic]
             ELSE LET r == WalkFindKids(n.kids)
                  IN  [tree |-> [n EXCEPT !.kids = r.kids], set |-> r.set,
                       node |-> r.node, panic |-> r.panic]

\* for child := node.FirstChild; child != nil; child = child.NextSibling
WalkFindKids(kids) ==
    IF kids = <<>>
    THEN [kids |-> <<>>, set |-> FALSE, node |-> NilNode, panic |-> FALSE]
    ELSE LET h == WalkFind(kids[1])
         IN  IF h.panic
             THEN [kids |-> <<h.tree>> \o Tail(kids), set |-> h.set,
                   node |-> h.node, panic |-> TRUE]
             ELSE LET t == WalkFindKids(Tail(kids))
                  IN  [kids |-> <<h.tree>> \o t.kids,
                       set |-> h.set \/ t.set,
                       node |-> LastAssigned(h, t),
                       panic |-> t.panic]

\* htmlToText: what the visit of node appends to e.text
htmlToText(n) == IF n.type = "text" THEN n.data \o <<"\n">> ELSE <<>>

\* walk(node, e.htmlToText): what the walk of the subtree appends to e.text
RECURSIVE WalkText(_), WalkTextKids(_)
WalkText(n) ==
    IF Skipped(n) THEN <<>> ELSE htmlToText(n) \o WalkTextKids(n.kids)

WalkTextKids(kids) ==
    IF kids = <<>> THEN <<>>
    ELSE WalkText(kids[1]) \o WalkTextKids(Tail(kids))

(***************************************************************************)
(* The documents the extractor is run on.                                  *)
(***************************************************************************)
Text(d) == Node("text", "", <<>>, d, <<>>)

Comment == Node("comment", "", <<>>, <<"c", "m">>, <<>>)

Doctype == Node("doctype", "", <<>>, <<"h", "t", "m", "l">>, <<>>)

Elem(tag, attr, kids) == Node("element", tag, attr, <<>>, kids)

Attr(k, v) == [key |-> k, val |-> v]

ClassHeader == Attr("class", <<"L", "y", "r", "i", "c", "s", "H", "e", "a", "d", "e", "r", "_", "_", "B", "o", "x">>)

DataHeader == Attr("data-x", <<"x", "L", "y", "r", "i", "c", "s", "H", "e", "a", "d", "e", "r">>)

ClassFooter == Attr("class", <<"L", "y", "r", "i", "c", "s", "F", "o", "o", "t", "e", "r">>)

DataFooter == Attr("data-x", <<"F", "o", "o", "t", "e", "r", "-", "1">>)

ClassPlain == Attr("class", <<"L", "y", "r", "i", "c", "s", "_", "_", "F", "o", "o", "t">>)

IdRoot == Attr("id", LyricsRootId)

\* what a lyric container may have as a child
KidNodes ==
    { Text(<<"l", "a">>),
      Comment,
      Elem("div", <<ClassHeader>>, <<Text(<<"h">>)>>),
      Elem("div", <<ClassHeader, DataHeader>>, <<Text(<<"h">>)>>),
      Elem("div", <<ClassFooter>>, <<Text(<<"f">>)>>),
      Elem("div", <<ClassFooter, DataFooter>>, <<Text(<<"f">>)>>),
      Elem("span", <<ClassPlain>>, <<Text(<<"x">>), Comment, Text(<<"y">>)>>),
      Elem("div", <<IdRoot>>, <<Text(<<"i">>)>>) }

RECURSIVE KidsUpTo(_)
KidsUpTo(n) ==
    IF n = 0 THEN {<<>>}
    ELSE LET shorter == KidsUpTo(n - 1)
         IN  shorter \cup {Append(ks, k) : ks \in shorter, k \in KidNodes}

\* the container: a div or another element carrying id="lyrics-root", or a
\* div that does not carry it
Containers ==
    { Elem(tag, attr, ks) :
        tag \in {"div", "section"},
        attr \in {<<ClassPlain, IdRoot>>},
        ks \in KidsUpTo(MaxKids) }
    \cup { Elem("div", <<ClassPlain>>, ks) : ks \in KidsUpTo(1) }

Before == {<<>>, <<Text(<<"p">>)>>}

After == {<<>>, <<Text(<<"q">>)>>, <<Elem("div", <<IdRoot>>, <<Text(<<"z">>)>>)>>}

\* the parsed page: document node, doctype, html, body, the body's children
Document(bodyKids) ==
    Node("document", "", <<>>, <<>>,
         <<Doctype, Elem("html", <<>>, <<Elem("body", <<>>, bodyKids)>>)>>)

Documents ==
    { Document(b \o <<c>> \o a) : b \in Before, c \in Containers, a \in After }

ExtInit ==
    /\ PagIdle
    /\ ExecIdle
    /\ ResIdle
    /\ extPc = "Idle"
    /\ reader \in {[ok |-> TRUE, tree |-> d] : d \in Documents}
                  \cup {[ok |-> FALSE, tree |-> NilNode]}
    /\ e_root = NilNode
    /\ e_node = NilNode
    /\ e_text = <<>>
    /\ extRet = <<>>
    /\ extErr = "none"

\* Extract: html.Parse(e.reader), and the return on its error
Parse ==
    /\ extPc = "Idle"
    /\ IF reader.ok
       THEN /\ e_root' = reader.tree
            /\ extPc' = "Parsed"
            /\ UNCHANGED <<extRet, extErr>>
       ELSE /\ extPc' = "Returned"
            /\ extRet' = <<>>
            /\ extErr' = "parse"
            /\ UNCHANGED e_root
    /\ UNCHANGED <<reader, e_node, e_text, pagVars, execVars, resVars>>

\* Extract: e.walk(e.root, e.findDivLyrics)
Locate ==
    /\ extPc = "Parsed"
    /\ LET w == WalkFind(e_root)
       IN  /\ e_root' = w.tree
           /\ e_node' = IF w.set THEN w.node ELSE e_node
           /\ extPc' = IF w.panic THEN "Panic" ELSE "Located"
    /\ UNCHANGED <<reader, e_text, extRet, extErr, pagVars, execVars, resVars>>

\* Extract: e.walk(e.node, e.htmlToText); return e.text, nil
Linearize ==
    /\ extPc = "Located"
    /\ IF e_node = NilNode
       THEN /\ extPc' = "Panic"
            /\ UNCHANGED <<e_text, extRet, extErr>>
       ELSE /\ e_text' = e_text \o WalkText(e_node)
            /\ extRet' = e_text'
            /\ extErr' = "none"
            /\ extPc' = "Returned"
    /\ UNCHANGED <<reader, e_root, e_node, pagVars, execVars, resVars>>

ExtNext == Parse \/ Locate \/ Linearize

SpecExtractor == ExtInit /\ [][ExtNext]_vars

(***************************************************************************)
(* src/genius.go: getSong, GetLyrics, GetSongWithLyrics, getAlbum and      *)
(* GetAnnotation, called against one server that answers the same request  *)
(* with the same response.                                                 *)
(***************************************************************************)
\* Extract, from html.Parse to its return, as GetLyrics calls it
Extract(rd) ==
    IF ~rd.ok THEN [panic |-> FALSE, err |-> "parse", text |-> <<>>]
    ELSE LET w == WalkFind(rd.tree)
         IN  IF w.panic \/ ~w.set
             THEN [panic |-> TRUE, err |-> "none", text |-> <<>>]
             ELSE [panic |-> FALSE, err |-> "none", text |-> WalkText(w.node)]

\* unicode.IsSpace, for the characters of the modelled pages
IsSpace(ch) == ch \in {" ", "\t", "\n"}

\* strings.TrimSpace
RECURSIVE TrimLeft(_), TrimRight(_)
TrimLeft(s) == IF s # <<>> /\ IsSpace(s[1]) THEN TrimLeft(Tail(s)) ELSE s

TrimRight(s) ==
    IF s # <<>> /\ IsSpace(s[Len(s)])
    THEN TrimRight(SubSeq(s, 1, Len(s) - 1))
    ELSE s

TrimSpace(s) == TrimRight(TrimLeft(s))

Embed == <<"E", "m", "b", "e", "d">>

\* a suffix test that accepts the word wherever it stands
HasSuffix_Anywhere(s, suffix) == Contains(s, suffix)

\* strings.HasSuffix
HasSuffix(s, suffix) ==
    /\ Len(s) >= Len(suffix)
    /\ SubSeq(s, Len(s) - Len(suffix) + 1, Len(s)) = suffix

\* strings.CutSuffix: the before value (found is only logged)
CutSuffix(s, suffix) ==
    IF HasSuffix(s, suffix) THEN SubSeq(s, 1, Len(s) - Len(suffix)) ELSE s

\* GetLyrics, from strings.TrimSpace to the return value
TrimEmbed(lyrics) ==
    LET trimmed == TrimSpace(lyrics)
    IN  IF HasSuffix(trimmed, Embed) THEN CutSuffix(trimmed, Embed) ELSE trimmed

\* results of a call: a value with a nil error, an error, or a panic
ErrResult(e) == [kind |-> "err", err |-> e]

PanicResult == [kind |-> "panic"]

\* the lyric page URLs; "%" is one that url.Parse rejects
URLs == {"u1", "u2", "%"}

ValidURL(uri) == uri # "%"

\* GetLyrics(uri) against the site st
GetLyrics(uri, st) ==
    IF ~ValidURL(uri) THEN ErrResult("url")
    ELSE IF st[uri].kind = "doErr" THEN ErrResult("transport")
    ELSE IF st[uri].kind = "readErr" THEN ErrResult("read")
    ELSE LET x == Extract(st[uri].reader)
         IN  IF x.panic THEN PanicResult
             ELSE IF x.err # "none" THEN ErrResult(x.err)
             ELSE [kind |-> "ok", text |-> TrimEmbed(x.text)]

\* getSong against the API answer a
getSong(a) ==
    IF a.kind = "err" THEN ErrResult("request")
    ELSE IF a.kind = "badjson" THEN ErrResult("unmarshal")
    ELSE IF a.response.nil THEN ErrResult("No song found")
    ELSE [kind |-> "ok", song |-> a.response.song]

\* ---- the server
ASong(u) == [nil |-> FALSE, url |-> u, lyrics |-> <<>>]

\* response.Response: nil, or a struct whose resources may each be nil
Response(s, al, an) == [nil |-> FALSE, song |-> s, album |-> al, annotation |-> an]

NilResponse == [nil |-> TRUE, song |-> NilSong, album |-> FALSE, annotation |-> FALSE]

Envelopes ==
    { NilResponse,
      Response(NilSong, FALSE, FALSE),
      Response(ASong("u1"), FALSE, FALSE),
      Response(ASong("u2"), FALSE, FALSE),
      Response(NilSong, TRUE, FALSE),
      Response(NilSong, FALSE, TRUE) }

ApiAnswers ==
    {[kind |-> "err"], [kind |-> "badjson"]}
    \cup {[kind |-> "env", response |-> r] : r \in Envelopes}

\* what the text nodes of a lyric container hold
LyricLines ==
    { <<" ", "l", "a">>,
      <<"l", "a", " ", "E", "m", "b", "e", "d", " ">>,
      <<"E", "m", "b", "e", "d">>,
      <<"1", "E", "m", "b", "e", "d", "d", "e", "d">>,
      <<"e", "m", "b", "e", "d">>,
      <<"\t">>,
      <<"E", "m", "b", "e", "d", "E", "m", "b", "e", "d">>,
      <<"E", "m">> }

LyricDocuments ==
    { Document(<<Elem("div", <<IdRoot>>, <<Text(a)>>)>>) : a \in LyricLines }
    \cup { Document(<<Elem("div", <<IdRoot>>, <<Text(a), Text(b)>>)>>) :
             a \in LyricLines, b \in LyricLines }
    \cup { Document(<<Elem("div", <<ClassPlain>>, <<Text(<<"l", "a">>)>>)>>) }

SiteAnswers ==
    { [kind |-> "doErr"], [kind |-> "readErr"],
      [kind |-> "page", reader |-> [ok |-> FALSE, tree |-> NilNode]] }
    \cup { [kind |-> "page", reader |-> [ok |-> TRUE, tree |-> d]] :
             d \in LyricDocuments }

OtherPage ==
    [kind |-> "page",
     reader |-> [ok |-> TRUE,
                 tree |-> Document(<<Elem("div", <<IdRoot>>,
                                          <<Text(<<"o", "h">>)>>)>>)]]

ResInit ==
    /\ PagIdle
    /\ ExecIdle
    /\ ExtIdle
    /\ api \in ApiAnswers
    /\ site \in {[u \in {"u1", "u2"} |-> IF u = "u1" THEN a ELSE OtherPage] :
                   a \in SiteAnswers}
    /\ tracksAns \in {"ok", "err"}
    /\ resPc = "Run"
    /\ gotSong = NoResult
    /\ gotLyrics = NoResult
    /\ swlPc = "Idle"
    /\ song = NilSong
    /\ song2 = NoResult
    /\ gotOther = NoResult

\* a nil dereference outside GetSongWithLyrics ends the process
Died(r) == IF r.kind = "panic" THEN "Panic" ELSE resPc

\* song, err := client.GetSong(id)
CallGetSong ==
    /\ resPc = "Run"
    /\ gotSong = NoResult
    /\ gotSong' = getSong(api)
    /\ UNCHANGED <<api, site, tracksAns, resPc, gotLyrics, swlPc, song, song2,
                   gotOther, pagVars, execVars, extVars>>

\* lyrics, err := client.GetLyrics(uri)
CallGetLyrics(uri) ==
    /\ resPc = "Run"
    /\ gotLyrics = NoResult
    /\ LET r == GetLyrics(uri, site)
       IN  /\ gotLyrics' = [kind |-> "done", uri |-> uri, res |-> r]
           /\ resPc' = Died(r)
    /\ UNCHANGED <<api, site, tracksAns, gotSong, swlPc, song, song2,
                   gotOther, pagVars, execVars, extVars>>

\* GetSongWithLyrics: song, err := c.GetSongDom(id) and the return on err
GetSongWithLyrics_Song ==
    /\ resPc = "Run"
    /\ swlPc = "Idle"
    /\ LET r == getSong(api)
       IN  IF r.kind = "err"
           THEN /\ swlPc' = "Done"
                /\ song2' = r
                /\ UNCHANGED song
           ELSE /\ swlPc' = "HaveSong"
                /\ song' = r.song
                /\ UNCHANGED song2
    /\ UNCHANGED <<api, site, tracksAns, resPc, gotSong, gotLyrics,
                   gotOther, pagVars, execVars, extVars>>

\* song.Lyrics = lyrics
SetLyrics(s, lyrics) == [s EXCEPT !.lyrics = lyrics]

\* GetSongWithLyrics: lyrics, err := c.GetLyrics(song.URL) to the end
GetSongWithLyrics_Lyrics ==
    /\ resPc = "Run"
    /\ swlPc = "HaveSong"
    /\ IF song.nil
       THEN /\ swlPc' = "Panic"
            /\ resPc' = "Panic"
            /\ UNCHANGED song2
       ELSE LET r == GetLyrics(song.url, site)
            IN  CASE r.kind = "panic" ->
                       /\ swlPc' = "Panic"
                       /\ resPc' = "Panic"
                       /\ UNCHANGED song2
                  [] r.kind = "err" ->
                       /\ swlPc' = "Done"
                       /\ song2' = r
                       /\ UNCHANGED resPc
                  [] OTHER ->
                       /\ swlPc' = "Done"
                       /\ song2' = [kind |-> "ok", song |-> SetLyrics(song, r.text)]
                       /\ UNCHANGED resPc
    /\ UNCHANGED <<api, site, tracksAns, gotSong, gotLyrics, song,
                   gotOther, pagVars, execVars, extVars>>

\* getAlbum(id, getTracks, textFormat) against the API answer a and the
\* outcome t of GetAlbumTracks
getAlbum(a, getTracks, t) ==
    IF a.kind = "err" THEN ErrResult("request")
    ELSE IF a.kind = "badjson" THEN ErrResult("unmarshal")
    ELSE IF getTracks /\ t = "err" THEN ErrResult("tracks")
    ELSE IF a.response.nil THEN PanicResult
    ELSE IF getTracks /\ ~a.response.album THEN PanicResult
    ELSE [kind |-> "ok", resource |-> a.response.album, tracks |-> getTracks]

\* album, err := client.GetAlbum(id, getTracks)
CallGetAlbum(getTracks) ==
    /\ resPc = "Run"
    /\ gotOther = NoResult
    /\ LET r == getAlbum(api, getTracks, tracksAns)
       IN  /\ gotOther' = [kind |-> "done", call |-> "getAlbum", res |-> r]
           /\ resPc' = Died(r)
    /\ UNCHANGED <<api, site, tracksAns, gotSong, gotLyrics, swlPc, song, song2,
                   pagVars, execVars, extVars>>

\* GetAnnotation(id, textFormat) against the API answer a; Process is not
\* part of the sources, so on a nil *Annotation it either panics or returns
GetAnnotation(a, nilProcessPanics) ==
    IF a.kind = "err" THEN ErrResult("request")
    ELSE IF a.kind = "badjson" THEN ErrResult("unmarshal")
    ELSE IF a.response.nil THEN PanicResult
    ELSE IF ~a.response.annotation /\ nilProcessPanics THEN PanicResult
    ELSE [kind |-> "ok", resource |-> a.response.annotation, tracks |-> FALSE]

\* response, err := client.GetAnnotation(id, textFormat)
CallGetAnnotation(nilProcessPanics) ==
    /\ resPc = "Run"
    /\ gotOther = NoResult
    /\ LET r == GetAnnotation(api, nilProcessPanics)
       IN  /\ gotOther' = [kind |-> "done", call |-> "GetAnnotation", res |-> r]
           /\ resPc' = Died(r)
    /\ UNCHANGED <<api, site, tracksAns, gotSong, gotLyrics, swlPc, song, song2,
                   pagVars, execVars, extVars>>

ResNext ==
    \/ CallGetSong
    \/ \E uri \in URLs : CallGetLyrics(uri)
    \/ GetSongWithLyrics_Song
    \/ GetSongWithLyrics_Lyrics
    \/ \E getTracks \in BOOLEAN : CallGetAlbum(getTracks)
    \/ \E nilProcessPanics \in BOOLEAN : CallGetAnnotation(nilProcessPanics)

SpecResources == ResInit /\ [][ResNext]_vars

(***************************************************************************)
(* Properties of the paginator.                                            *)
(***************************************************************************)
Min(a, b) == IF a < b THEN a ELSE b

Last(s) == s[Len(s)]

RECURSIVE SumPerPage(_)
SumPerPage(rs) ==
    IF rs = <<>> THEN 0 ELSE rs[1].per_page + SumPerPage(Tail(rs))

\* the items the k-th page request came back with
RespItems(k) ==
    IF resps[k].kind = "ok"
    THEN Items(reqs[k].page, reqs[k].per_page, resps[k].n)
    ELSE <<>>

\* the item lists of the first k pages, concatenated in fetch order
RECURSIVE ConcatPages(_)
ConcatPages(k) == IF k = 0 THEN <<>> ELSE ConcatPages(k - 1) \o RespItems(k)

Bounded == op = "GetArtistSongs" /\ total >= 0

Unbounded ==
    \/ op = "GetArtistSongs" /\ total = -1
    \/ op \in {"GetArtistAlbums", "GetAlbumTracks"}

PerPages == [k \in 1..Len(reqs) |-> reqs[k].per_page]

\* every page request so far was answered, page k with next_page = k + 1
ServerCountsUp ==
    \A k \in 1..Len(resps) :
        /\ resps[k].kind = "ok"
        /\ resps[k].next_page = reqs[k].page + 1

FullPages ==
    \A k \in 1..Len(resps) :
        resps[k].kind = "ok" /\ resps[k].n = reqs[k].per_page

\* the next_page values are those of a server holding at least N items: the
\* page after the one asked for, or 0 once N items or more lie behind it
HoldsAtLeastTotal ==
    \A k \in 1..Len(resps) :
        /\ resps[k].kind = "ok"
        /\ resps[k].next_page \in {0, reqs[k].page + 1}
        /\ resps[k].next_page = 0 =>
               reqs[k].page * reqs[k].per_page >= total

\* C2: in bounded mode with target N, against a server that holds at least N
\* items and fills every page, GetArtistSongs returns exactly N items, the
\* concatenation of the pages in fetch order (so it never gathers more than N).
C2_BoundedReturnsExactlyN ==
    (Bounded /\ FullPages /\ HoldsAtLeastTotal) =>
        /\ Len(acc) <= total
        /\ pc = "Done" =>
              /\ Len(result) = total
              /\ result = ConcatPages(Len(resps))

\* C3: in unbounded mode every page request carries per_page = 50.
C3_UnboundedFullCeiling ==
    Unbounded => \A k \in 1..Len(reqs) : reqs[k].per_page = perPage

\* C4: in unbounded mode the returned list is the concatenation, in fetch
\* order, of the items of all pages fetched, the final page included.
C4_UnboundedConcatAll ==
    (Unbounded /\ pc = "Done") => result = ConcatPages(Len(resps))

\* C5: unbounded pagination stops at the first decoded page whose next_page
\* is zero: that page is the last one requested and the call returns without
\* error, whatever per_page was requested.
C5_StopsAtExhaustion ==
    Unbounded =>
        \A k \in 1..Len(resps) :
            (resps[k].kind = "ok" /\ resps[k].next_page = 0) =>
                /\ k = Len(resps)
                /\ pc = "Done"
                /\ err = "none"

C5_Witness ==
    /\ Unbounded
    /\ Len(resps) >= 2
    /\ Last(resps).kind = "ok"
    /\ Last(resps).next_page = 0
    /\ pc = "Done"

\* C6: a failed page request ends the fetch at once: it is the last request,
\* the error is returned and the result is nil, never the items of the
\* earlier pages.
C6_FailFast ==
    \A k \in 1..Len(resps) :
        resps[k].kind = "err" =>
            /\ k = Len(resps)
            /\ pc = "Failed"
            /\ err = "error"
            /\ result = <<>>

C6_Witness ==
    /\ pc = "Failed"
    /\ Len(resps) >= 2
    /\ Last(resps).kind = "err"
    /\ acc # <<>>

(***************************************************************************)
(* Properties of the request executor.                                     *)
(***************************************************************************)
GotThrottled ==
    lastOutcome.kind = "resp" /\ lastOutcome.status \in {429, 1015}

\* C7: a 429 or 1015 response is never surfaced: after each one the executor
\* has waited and is about to send again, every attempt carries the identical
\* request (the caller's method, URL and query, Authorization: Bearer <token>,
\* Content-Type: application/json), and doRequest has returned only after a
\* non-throttled response or a transport error.
C7_ThrottledNeverSurfaced ==
    /\ GotThrottled =>
          /\ execPc = "Sending"
          /\ retBody.nil /\ retErr.nil
          /\ sleeps = attempts
    /\ execPc = "Returned" => ~GotThrottled /\ sleeps = attempts - 1
    /\ attempts >= 1 =>
          /\ lastSent = firstSent
          /\ lastSent.method = callReq.method
          /\ lastSent.url = callReq.url
          /\ lastSent.query = callReq.query
          /\ lastSent.authorization = <<"Bearer ", AccessToken>>
          /\ lastSent.content_type = "application/json"

C7_Witness ==
    /\ execPc = "Returned"
    /\ attempts = 3
    /\ sleeps = 2
    /\ lastOutcome.kind = "resp"
    /\ lastOutcome.status = 200
    /\ callReq.authorization = <<"Bearer ", "stale">>

\* a decimal integer literal: an optional sign, then one digit or more
IsIntLit(h) ==
    LET ds == IF h # <<>> /\ h[1] \in {"+", "-"} THEN Tail(h) ELSE h
    IN  ds # <<>> /\ \A i \in 1..Len(ds) : IsDigit(ds[i])

RECURSIVE Pow10(_)
Pow10(k) == IF k = 0 THEN 1 ELSE 10 * Pow10(k - 1)

RECURSIVE PlaceSum(_, _)
PlaceSum(ds, i) ==
    IF i > Len(ds) THEN 0
    ELSE DigitVal(ds[i]) * Pow10(Len(ds) - i) + PlaceSum(ds, i + 1)

\* the integer a literal of at most nine digits denotes
LitValue(h) ==
    LET ds == IF h[1] \in {"+", "-"} THEN Tail(h) ELSE h
    IN  IF h[1] = "-" THEN 0 - PlaceSum(ds, 1) ELSE PlaceSum(ds, 1)

LitDigits(h) == IF h[1] \in {"+", "-"} THEN Len(h) - 1 ELSE Len(h)

\* C8: the wait before a retry is computed from the throttled response just
\* received: n seconds when its Retry-After value parses as the (32-bit)
\* integer n, and 5 seconds when the header is absent or does not parse
\* (Retry-After: 2 gives 2 seconds).
C8_RetryWait ==
    GotThrottled =>
        LET h == lastOutcome.retry_after
        IN  /\ (IsIntLit(h) /\ LitDigits(h) <= 9) => slept = LitValue(h)
            /\ ~IsIntLit(h) => slept = 5
            /\ h = <<>> => slept = 5
            /\ h = <<"2">> => slept = 2
            /\ h = <<"2","1","4","7","4","8","3","6","4","7">>
                  => slept = 2147483647
            /\ h = <<"2","1","4","7","4","8","3","6","4","8">> => slept = 5
            /\ h = <<"-","2","1","4","7","4","8","3","6","4","9">> => slept = 5

C8_Witness ==
    /\ GotThrottled
    /\ lastOutcome.retry_after = <<"2">>
    /\ slept = 2
    /\ sleeps = 2

\* C9: a fully read response whose status is neither 200 nor 429 nor 1015
\* makes doRequest return at once, with no wait and no retry, a nil body and
\* the response body as the error message; one with status 200 makes it
\* return the response body and no error.
C9_NonThrottledReturns ==
    (lastOutcome.kind = "resp" /\ lastOutcome.readOk) =>
        /\ lastOutcome.status \notin {200, 429, 1015} =>
              /\ execPc = "Returned"
              /\ sleeps = attempts - 1
              /\ retBody.nil
              /\ ~retErr.nil
              /\ retErr.text = lastOutcome.body
        /\ lastOutcome.status = 200 =>
              /\ execPc = "Returned"
              /\ retErr.nil
              /\ ~retBody.nil
              /\ retBody.bytes = lastOutcome.body

C9_Witness ==
    /\ execPc = "Returned"
    /\ attempts = 1
    /\ lastOutcome.kind = "resp"
    /\ lastOutcome.status = 500
    /\ lastOutcome.body = "upstream says no"
    /\ ~retErr.nil
    /\ retErr.text = "upstream says no"

(***************************************************************************)
(* Properties of the text extractor.                                       *)
(***************************************************************************)
\* the elements of a tree that carry id="lyrics-root", in document order
RECURSIVE RootsOf(_), RootsOfKids(_)
RootsOf(n) ==
    (IF n.type = "element" /\ HasLyricsRootId(n) THEN <<n>> ELSE <<>>)
    \o RootsOfKids(n.kids)

RootsOfKids(kids) ==
    IF kids = <<>> THEN <<>> ELSE RootsOf(kids[1]) \o RootsOfKids(Tail(kids))

HasValueContaining(n, sub) ==
    \E i \in 1..Len(n.attr) : Contains(n.attr[i].val, sub)

\* a container's children without a header first child and a footer last child
WithoutBoilerplate(kids) ==
    LET a == IF kids # <<>> /\ HasValueContaining(kids[1], LyricsHeader)
             THEN Tail(kids) ELSE kids
    IN  IF a # <<>> /\ HasValueContaining(a[Len(a)], Footer)
        THEN SubSeq(a, 1, Len(a) - 1) ELSE a

\* the payloads of the text nodes below a list of nodes, each followed by a
\* newline, in document order; only elements are descended into
RECURSIVE PayloadLines(_)
PayloadLines(kids) ==
    IF kids = <<>> THEN <<>>
    ELSE LET n == kids[1]
         IN  (IF n.type = "text" THEN n.data \o <<"\n">>
              ELSE IF n.type = "element" THEN PayloadLines(n.kids)
              ELSE <<>>)
             \o PayloadLines(Tail(kids))

ExtractEnded == extPc \in {"Returned", "Panic"}

\* C10: for a document with exactly one element carrying id="lyrics-root",
\* Extract returns the payloads of the text nodes of that subtree, each
\* followed by a newline, in document order, comments contributing nothing,
\* without the first child when one of its attribute values contains
\* "LyricsHeader" and without the last child when one contains "Footer".
C10_ExtractsTheContainer ==
    (ExtractEnded /\ reader.ok /\ Len(RootsOf(reader.tree)) = 1) =>
        /\ extPc = "Returned"
        /\ extErr = "none"
        /\ extRet = PayloadLines(WithoutBoilerplate(RootsOf(reader.tree)[1].kids))

\* the elements findDivLyrics matches when the traversal meets them, in
\* document order: div elements carrying id="lyrics-root" that do not lie
\* inside an earlier such element (the walk does not descend into a match)
RECURSIVE Encountered(_), EncounteredKids(_)
Encountered(n) ==
    IF n.type \in {"comment", "doctype", "error"} THEN <<>>
    ELSE IF n.type = "element" /\ n.tag = "div" /\ HasLyricsRootId(n) THEN <<n>>
    ELSE EncounteredKids(n.kids)

EncounteredKids(kids) ==
    IF kids = <<>> THEN <<>>
    ELSE Encountered(kids[1]) \o EncounteredKids(Tail(kids))

\* a is the element b of the page, possibly with children removed at its ends
SameElement(a, b) ==
    /\ a.type = b.type
    /\ a.tag = b.tag
    /\ a.attr = b.attr
    /\ \E i \in 1..(Len(b.kids) + 1) : \E j \in 0..Len(b.kids) :
           a.kids = SubSeq(b.kids, i, j)

\* C11: when the traversal meets several matching elements, the container the
\* text is extracted from is the last one met; the earlier ones contribute
\* nothing to the returned text.
C11_LastMatchWins ==
    (extPc \in {"Located", "Returned"} /\ Len(Encountered(reader.tree)) >= 2) =>
        /\ e_node # NilNode
        /\ SameElement(e_node, Last(Encountered(reader.tree)))
        /\ extPc = "Returned" =>
               /\ extErr = "none"
               /\ extRet = PayloadLines(e_node.kids)

C11_Witness ==
    /\ extPc = "Returned"
    /\ Len(Encountered(reader.tree)) >= 2
    /\ Encountered(reader.tree)[1].attr # Last(Encountered(reader.tree)).attr
    /\ PayloadLines(Encountered(reader.tree)[1].kids) # <<>>
    /\ extRet = <<"z", "\n">>

\* C12 as stated: a page without a matching container makes Extract return a
\* "container not found" error and no text, and never crash.
C12_ContainerNotFound ==
    (ExtractEnded /\ reader.ok /\ Encountered(reader.tree) = <<>>) =>
        /\ extPc = "Returned"
        /\ extErr = "notfound"
        /\ extRet = <<>>

C16_TransportErrorImmediate ==
    lastOutcome.kind = "doErr" =>
        /\ execPc = "Returned"
        /\ retErr = [nil |-> FALSE, text |-> "transport"]
        /\ retBody = [nil |-> TRUE]
        /\ sleeps = attempts - 1
        /\ attempts = 1 => slept = 0

C16_Witness ==
    /\ lastOutcome.kind = "doErr"
    /\ attempts = 3
    /\ sleeps = 2
    /\ execPc = "Returned"

(***************************************************************************)
(* Further properties of the paginator.                                    *)
(***************************************************************************)
\* C17 as stated: every page request asks for a page >= 1 and, in bounded
\* mode, the items asked for so far never exceed the target, whatever
\* next-page values the server sends.
C17_CursorInvariant ==
    /\ \A k \in 1..Len(reqs) : reqs[k].page >= 1
    /\ Bounded => SumPerPage(reqs) <= total

\* C18 as stated: a bounded fetch ends when a page comes back with next-page
\* zero before the target is met: no further request is issued and the items
\* fetched so far are returned.
C18_BoundedStopsAtExhaustion ==
    Bounded =>
        \A k \in 1..Len(resps) :
            ( /\ resps[k].kind = "ok"
              /\ resps[k].next_page = 0
              /\ SumPerPage(SubSeq(reqs, 1, k)) < total ) =>
                /\ k = Len(resps)
                /\ pc = "Done"
                /\ err = "none"
                /\ result = ConcatPages(k)

\* C20: the first request of a paginated fetch asks for page 1, each later
\* request asks for the next-page value of the response before it, and while
\* the fetch goes on the cursor is that value: the client never computes it.
C20_ServerDrivesCursor ==
    /\ \A k \in 1..Len(reqs) :
           reqs[k].page = IF k = 1 THEN 1 ELSE resps[k - 1].next_page
    /\ pc = "Fetching" =>
           page = IF resps = <<>> THEN 1 ELSE Last(resps).next_page

C20_Witness ==
    /\ Len(reqs) >= 3
    /\ reqs[1].page = 1
    /\ reqs[2].page > 2
    /\ reqs[3].page = resps[2].next_page
    /\ reqs[3].page # reqs[2].page + 1

(***************************************************************************)
(* Properties of the resource calls.                                       *)
(***************************************************************************)
\* the text Extract hands to GetLyrics for the page behind uri
Extracted(uri) == Extract(site[uri].reader).text

\* t ends with the characters of w
EndsWith(t, w) ==
    /\ Len(t) >= Len(w)
    /\ \A k \in 1..Len(w) : t[Len(t) - Len(w) + k] = w[k]

\* C13: the text GetLyrics returns is the extracted text without its leading
\* and trailing whitespace and, exactly when that trimmed text ends with the
\* characters "Embed", without that suffix; a trimmed text ending with
\* "Embedded" is returned whole, and every other character is kept in place.
C13_TrimThenCutEmbed ==
    (gotLyrics.kind = "done" /\ gotLyrics.res.kind = "ok") =>
        LET X == Extracted(gotLyrics.uri)
            R == gotLyrics.res.text
        IN  \E i \in 1..(Len(X) + 1) : \E j \in (i - 1)..Len(X) :
                /\ \A k \in 1..(i - 1) : IsSpace(X[k])
                /\ \A k \in (j + 1)..Len(X) : IsSpace(X[k])
                /\ i <= j => ~IsSpace(X[i]) /\ ~IsSpace(X[j])
                /\ LET T == SubSeq(X, i, j)
                   IN  /\ EndsWith(T, Embed) => R \o Embed = T
                       /\ ~EndsWith(T, Embed) => R = T
                       /\ EndsWith(T, Embed \o <<"d", "e", "d">>) => R = T

C13_Witness ==
    /\ gotLyrics.kind = "done"
    /\ gotLyrics.res.kind = "ok"
    /\ Extracted(gotLyrics.uri) =
           <<" ", "l", "a", "\n", "E", "m", "b", "e", "d", "\n">>
    /\ gotLyrics.res.text = <<"l", "a", "\n">>

\* the decoded envelope lacks the resource a call is after
Lacks(resource) ==
    /\ api.kind = "env"
    /\ \/ api.response.nil
       \/ resource = "song" /\ api.response.song.nil
       \/ resource = "album" /\ ~api.response.album
       \/ resource = "annotation" /\ ~api.response.annotation

\* C14 as stated: when the decoded envelope lacks the resource, getSong,
\* GetSongWithLyrics, getAlbum and GetAnnotation return an error; they
\* neither dereference the nil value nor return without an error.
C14_ExplicitNotFound ==
    /\ Lacks("song") =>
           /\ gotSong.kind \in {"none", "err"}
           /\ swlPc # "Panic"
           /\ song2.kind \in {"none", "err"}
    /\ (Lacks("album") /\ gotOther.kind = "done" /\ gotOther.call = "getAlbum") =>
           gotOther.res.kind = "err"
    /\ (Lacks("annotation") /\ gotOther.kind = "done"
            /\ gotOther.call = "GetAnnotation") =>
           gotOther.res.kind = "err"

\* C15 as stated: GetSongWithLyrics returns, either the song GetSong returns
\* with Lyrics set to what GetLyrics(song.URL) returns, or no song and the
\* error of the song fetch or of the lyric fetch, whichever failed.
C15_SongWithLyrics ==
    /\ swlPc # "Panic"
    /\ (swlPc = "Done" /\ gotSong.kind # "none") =>
           IF gotSong.kind = "err" THEN song2 = gotSong
           ELSE (/\ ~gotSong.song.nil
                 /\ gotLyrics.kind = "done"
                 /\ gotLyrics.uri = gotSong.song.url) =>
                    IF gotLyrics.res.kind = "err" THEN song2 = gotLyrics.res
                    ELSE /\ song2.kind = "ok"
                         /\ song2.song.url = gotSong.song.url
                         /\ song2.song.lyrics = gotLyrics.res.text

(***************************************************************************)
(* Further properties of the paginator and of the text extractor.          *)
(***************************************************************************)
\* the first n items of the collection, in server order
FirstItems(n) == [i \in 1..n |-> i - 1]

\* C21 as stated: against a server that serves page p of size s as the items
\* at offsets (p-1)*s .. p*s-1, fills every page and counts the pages up, a
\* bounded GetArtistSongs(total = N) returns the first N items in server
\* order, none twice and none skipped.
C21_BoundedFirstN ==
    (Bounded /\ ServerCountsUp /\ FullPages /\ pc = "Done") =>
        result = FirstItems(total)

\* a tree without the children of the containers the traversal matches
RECURSIVE Blank(_), BlankKids(_)
Blank(n) ==
    IF n.type = "element" /\ n.tag = "div" /\ HasLyricsRootId(n)
    THEN [n EXCEPT !.kids = <<>>]
    ELSE [n EXCEPT !.kids = BlankKids(n.kids)]

BlankKids(kids) ==
    IF kids = <<>> THEN <<>> ELSE <<Blank(kids[1])>> \o BlankKids(Tail(kids))

\* C22 as stated: stripping takes at most one child from the front and at
\* most one from the back of the located container, whatever the number of
\* matching attribute values; its other children stay, in order, and the
\* nodes outside the matched containers are unchanged.
C22_StripsAtMostOneEachEnd ==
    (extPc \in {"Located", "Returned"} /\ e_node # NilNode) =>
        LET c == Last(Encountered(reader.tree))
        IN  /\ \E a \in {0, 1} : \E b \in {0, 1} :
                   /\ a + b <= Len(c.kids)
                   /\ e_node.kids = SubSeq(c.kids, a + 1, Len(c.kids) - b)
            /\ Blank(e_root) = Blank(reader.tree)

\* C23 as stated: once the traversal has matched a container, Extract does
\* not crash: it returns the text, possibly empty, and no error, also for a
\* container without children or with a header as its only child.
C23_NoCrashOnceMatched ==
    (ExtractEnded /\ reader.ok /\ Encountered(reader.tree) # <<>>) =>
        /\ extPc = "Returned"
        /\ extErr = "none"

(***************************************************************************)
(* Termination of the request executor.                                    *)
(***************************************************************************)
\* C24: when the server comes to answer an attempt with a status other than
\* 429/1015, or the transport fails, every call of doRequest returns; and
\* doRequest does not return on a 429/1015 answer: after each one it has
\* waited once more and is about to send again, without any retry limit.
C24_ReturnsOnceAnswered ==
    /\ (execPc = "Sending") ~> (execPc = "Returned")
    /\ [](execPc = "Returned" => ~ServerThrottles(lastOutcome))
    /\ [](ServerThrottles(lastOutcome) =>
              /\ execPc = "Sending"
              /\ sleeps = attempts)

C24_Witness ==
    /\ execPc = "Returned"
    /\ attempts >= 4
    /\ sleeps = attempts - 1
    /\ lastOutcome.kind = "resp"
    /\ lastOutcome.status = 404

====
